---- MODULE Spec2Model ----
(***************************************************************************)
(* A model of dataset_collect.ipynb: the deduplicating downloader          *)
(* (download_image), the batch generator over the image search page        *)
(* (yandex_images_batch_generator), the two region filters                 *)
(* (filter_by_constrain, suppress_inside_bboxes), the per-image pipeline   *)
(* (get_image_and_bboxes, extract_and_save_bboxes, image_pipeline) and the *)
(* loops that drive it.                                                    *)
(*                                                                         *)
(* Spec         the harvest: one generator object and the caller pulling   *)
(*              batches from it.                                           *)
(* SpecRegions  the two filter stages applied to bounded lists of boxes,   *)
(*              then the crops and rows written for the result.            *)
(* SpecSuppress suppress_inside_bboxes, one pair of its loops at a time.   *)
(* SpecPipeline image_pipeline called by the loops of cells 17 and 19 on   *)
(*              the images of the batches.                                 *)
(* SpecPull     the harvest with a caller that pulls until the generator   *)
(*              ends, under weak fairness.                                 *)
(***************************************************************************)
EXTENDS Integers, Sequences, FiniteSets, TLC

VARIABLES
    pc,          \* the generator: "created", "top" (of the loop), "yielded",
                 \* "final" (the last yield), "done", "closed", "error"
    driver,      \* the selenium session: "none", "open", "quit"
    batch_size,  \* the batch_size argument
    dedup_set,   \* dedup_set: digests seen in this session
    batch,       \* batch: paths collected since the last yield
    idx,         \* idx: cursor into images
    images,      \* len(images): elements the last find_elements returned
    emitted,     \* the batches the caller has received, in order
    files,       \* the files of output_dir
    uuids,       \* how many uuid4() values have been drawn
    requests,    \* how many requests.get calls have been made
    scrolls,     \* how many times the page has been scrolled
    log,         \* history: one entry per processed candidate
    rpc,         \* position of the region filters: "input", "filtered", "suppressed",
                 \* "saved"
    bboxes,      \* the boxes handed to filter_by_constrain
    constrain,   \* the (low, high) bounds handed to filter_by_constrain
    accepted,    \* what filter_by_constrain returned
    spc,         \* suppress_inside_bboxes: "idle", "loop", "returned"
    sboxes,      \* its bboxes argument
    keep,        \* its keep list
    si,          \* its loop variable i (from 1)
    sj,          \* its loop variable j (from 1)
    cmps,        \* history: the pairs it has compared, in order
    survivors,   \* what it returned
    cell,        \* the loop that runs image_pipeline: "cell19" (the harvest
                 \* driver loop) or "cell17" (the directory loop)
    source,      \* the batches the generator will yield (cell 19), or the
                 \* one list image_paths (cell 17)
    bno,         \* how many batches have been pulled; source[bno] is batch
    ppc,         \* the loop: "idle", "next" (before next(generator)), "item"
                 \* (in the for loop), "exhausted" (StopIteration or end of
                 \* image_paths), "stopped" (break), "aborted" (an exception
                 \* left the cell)
    ppos,        \* position of path in the batch (from 1)
    counter,     \* counter
    already_downloaded,
    num_images,
    pdisk,       \* the image files of downloaded_dir / images_dir
    crops,       \* the files of bboxes_dir
    csvs,        \* the files of csv_dir
    hist         \* history: one entry per image_pipeline call

hvars == <<pc, driver, batch_size, dedup_set, batch, idx, images, emitted,
           files, uuids, requests, scrolls, log>>
rvars == <<rpc, bboxes, constrain, accepted>>
svars == <<spc, sboxes, keep, si, sj, cmps, survivors>>
pvars == <<cell, source, bno, ppc, ppos, counter, already_downloaded, num_images,
           pdisk, crops, csvs, hist>>
vars == <<pc, driver, batch_size, dedup_set, batch, idx, images, emitted,
          files, uuids, requests, scrolls, log, rpc, bboxes, constrain, accepted,
          spc, sboxes, keep, si, sj, cmps, survivors,
          cell, source, bno, ppc, ppos, counter, already_downloaded, num_images,
          pdisk, crops, csvs, hist>>

(***************************************************************************)
(* Bounds of the model.                                                    *)
(***************************************************************************)
\* candidates the search page ever lists
MaxCand == 3
\* largest batch_size tried
MaxBatchSize == 2

(***************************************************************************)
(* Data.                                                                   *)
(***************************************************************************)
\* byte contents a server can return
Blobs == {"blobA", "blobB", "blobC"}

\* hashlib.md5(image_bytes).hexdigest(): a digest, distinct for distinct
\* contents of the model
compute_md5(image_bytes) == <<"md5", image_bytes>>

\* the value of an element's src attribute: absent (None) or a text, the text
\* being its leading token followed by the rest
NoUrl == [present |-> FALSE, text |-> <<>>]
EmptyUrl == [present |-> TRUE, text |-> <<>>]
DataUrl == [present |-> TRUE, text |-> <<"data:", "image/gif;base64">>]
HttpUrl == [present |-> TRUE, text |-> <<"https:", "//host/img">>]
Urls == {NoUrl, EmptyUrl, DataUrl, HttpUrl}

\* an <img> element: reading its attribute raises when it is stale
StaleElem == [stale |-> TRUE, src |-> NoUrl]
Elements == {StaleElem} \cup {[stale |-> FALSE, src |-> u] : u \in Urls}

\* what requests.get does: it raises, or returns a response
NoResp == [kind |-> "none", code |-> 0, body |-> ""]
Responses ==
    {[kind |-> "raise", code |-> 0, body |-> ""],
     [kind |-> "http", code |-> 404, body |-> ""]}
    \cup {[kind |-> "http", code |-> 200, body |-> b] : b \in Blobs}

\* what writing the file does: it succeeds, open() raises, or f.write() raises
\* after open() has created the file
DiskOutcomes == {"ok", "open_raises", "write_raises"}

\* download_image's return value: None, or the path of the saved file
NoPath == <<>>


(***************************************************************************)
(* bbox_ratio and filter_by_constrain                                      *)
(***************************************************************************)
\* largest width and height of a box of the bounded inputs
MaxW == 2
MaxH == 6
\* longest bounded input list
MaxBoxes == 2

\* constrain=(1.5, 5): the two bounds as fractions
DefaultConstrain == <<[num |-> 3, den |-> 2], [num |-> 5, den |-> 1]>>
Constrains == {DefaultConstrain, <<[num |-> 1, den |-> 1], [num |-> 2, den |-> 1]>>}

\* the width taken as at least 1
bbox_ratio_clamped(bbox) ==
    [kind |-> "fin", num |-> bbox[4], den |-> IF bbox[3] > 0 THEN bbox[3] ELSE 1]

\* h / w on numpy numbers: the quotient, inf for h > 0 = w and nan for 0 / 0
\* (numpy warns and does not raise).  A box is <<x, y, w, h>>.
bbox_ratio(bbox) ==
    LET w == bbox[3]
        h == bbox[4]
    IN  IF w # 0 THEN [kind |-> "fin", num |-> h, den |-> w]
        ELSE IF h # 0 THEN [kind |-> "inf", num |-> 1, den |-> 0]
        ELSE [kind |-> "nan", num |-> 0, den |-> 0]

\* the upper bound taken as included
FloatLessOrEqual(scalar, bound) ==
    /\ scalar.kind = "fin"
    /\ scalar.num * bound.den <= bound.num * scalar.den

\* scalar < bound and scalar > bound on floats: false for nan
FloatLess(scalar, bound) ==
    /\ scalar.kind = "fin"
    /\ scalar.num * bound.den < bound.num * scalar.den

FloatGreater(scalar, bound) ==
    \/ scalar.kind = "inf"
    \/ /\ scalar.kind = "fin"
       /\ scalar.num * bound.den > bound.num * scalar.den

\* the selected rows in reverse order
RECURSIVE BoolIndexReversed(_, _)
BoolIndexReversed(array, mask) ==
    IF array = <<>> THEN <<>>
    ELSE LET rest == BoolIndexReversed(Tail(array), Tail(mask))
         IN  IF Head(mask) THEN rest \o <<Head(array)>> ELSE rest

\* array[mask]: the rows whose mask entry is true, in order
RECURSIVE BoolIndex(_, _)
BoolIndex(array, mask) ==
    IF array = <<>> THEN <<>>
    ELSE LET rest == BoolIndex(Tail(array), Tail(mask))
         IN  IF Head(mask) THEN <<Head(array)>> \o rest ELSE rest

filter_by_constrain(boxes, c) ==
    LET scalars == [i \in 1..Len(boxes) |-> bbox_ratio(boxes[i])]
        mask1 == [i \in 1..Len(boxes) |-> FloatLess(scalars[i], c[2])]
        mask2 == [i \in 1..Len(boxes) |-> FloatGreater(scalars[i], c[1])]
    IN  BoolIndex(boxes, [i \in 1..Len(boxes) |-> mask1[i] /\ mask2[i]])


(***************************************************************************)
(* suppress_inside_bboxes                                                  *)
(***************************************************************************)
\* threshold=0.7 as a fraction
DefaultThreshold == [num |-> 7, den |-> 10]

bbox_area(b) == b[3] * b[4]

Max2(a, b) == IF a >= b THEN a ELSE b
Min2(a, b) == IF a <= b THEN a ELSE b

intersection_area(b1, b2) ==
    LET x1 == Max2(b1[1], b2[1])
        y1 == Max2(b1[2], b2[2])
        x2 == Min2(b1[1] + b1[3], b2[1] + b2[3])
        y2 == Min2(b1[2] + b1[4], b2[2] + b2[4])
    IN  IF x2 <= x1 \/ y2 <= y1 THEN 0 ELSE (x2 - x1) * (y2 - y1)

\* a / b on non-negative numpy numbers: inf for a > 0 = b, nan for 0 / 0
FloatDiv(a, b) ==
    IF b # 0 THEN [kind |-> "fin", num |-> a, den |-> b]
    ELSE IF a # 0 THEN [kind |-> "inf", num |-> 1, den |-> 0]
    ELSE [kind |-> "nan", num |-> 0, den |-> 0]

\* the test taken as a strict one
FloatGreaterStrict(scalar, bound) ==
    \/ scalar.kind = "inf"
    \/ /\ scalar.kind = "fin"
       /\ scalar.num * bound.den > bound.num * scalar.den

\* scalar >= bound on floats: false for nan.  For areas of pixel boxes the
\* rounded quotient compares with the literal 0.7 as the exact one with 7/10.
FloatGreaterEq(scalar, bound) ==
    \/ scalar.kind = "inf"
    \/ /\ scalar.kind = "fin"
       /\ scalar.num * bound.den >= bound.num * scalar.den

\* the skip that does not look at keep[j]
SkipPairIgnoresJ(k, i, j) == i = j \/ ~k[i]

\* if i == j or not keep[i] or not keep[j]: continue
SkipPair(k, i, j) == i = j \/ ~k[i] \/ ~k[j]

\* the comparison discarding the larger box of the pair
ComparePairDropsLarger(boxes, k, i, j, threshold) ==
    LET area_i == bbox_area(boxes[i])
        area_j == bbox_area(boxes[j])
        inter == intersection_area(boxes[i], boxes[j])
    IN  IF area_i < area_j
        THEN IF FloatGreaterEq(FloatDiv(inter, area_i), threshold)
             THEN [k EXCEPT ![j] = FALSE] ELSE k
        ELSE IF area_j < area_i
        THEN IF FloatGreaterEq(FloatDiv(inter, area_j), threshold)
             THEN [k EXCEPT ![i] = FALSE] ELSE k
        ELSE k

\* the comparison with boxes of equal area ordered too
ComparePairTies(boxes, k, i, j, threshold) ==
    LET area_i == bbox_area(boxes[i])
        area_j == bbox_area(boxes[j])
        inter == intersection_area(boxes[i], boxes[j])
    IN  IF area_i <= area_j
        THEN IF FloatGreaterEq(FloatDiv(inter, area_i), threshold)
             THEN [k EXCEPT ![i] = FALSE] ELSE k
        ELSE IF FloatGreaterEq(FloatDiv(inter, area_j), threshold)
             THEN [k EXCEPT ![j] = FALSE] ELSE k

\* the body of the loops after the skip: keep after boxes i and j are compared
ComparePair(boxes, k, i, j, threshold) ==
    LET area_i == bbox_area(boxes[i])
        area_j == bbox_area(boxes[j])
        inter == intersection_area(boxes[i], boxes[j])
    IN  IF area_i < area_j
        THEN IF FloatGreaterEq(FloatDiv(inter, area_i), threshold)
             THEN [k EXCEPT ![i] = FALSE] ELSE k
        ELSE IF area_j < area_i
        THEN IF FloatGreaterEq(FloatDiv(inter, area_j), threshold)
             THEN [k EXCEPT ![j] = FALSE] ELSE k
        ELSE k

\* the two loops from the pair (i, j) on
RECURSIVE SuppressFrom(_, _, _, _, _)
SuppressFrom(boxes, k, i, j, threshold) ==
    IF i > Len(boxes) THEN k
    ELSE LET k2 == IF SkipPair(k, i, j) THEN k
                   ELSE ComparePair(boxes, k, i, j, threshold)
         IN  IF j < Len(boxes)
             THEN SuppressFrom(boxes, k2, i, j + 1, threshold)
             ELSE SuppressFrom(boxes, k2, i + 1, 1, threshold)

\* keep after the loops, then bboxes[keep]
suppress_inside_bboxes(boxes, threshold) ==
    LET kept == SuppressFrom(boxes, [n \in 1..Len(boxes) |-> TRUE], 1, 1, threshold)
    IN  BoolIndex(boxes, [n \in 1..Len(boxes) |-> kept[n]])


(***************************************************************************)
(* download_image                                                          *)
(***************************************************************************)
\* The call download_image(img_url, output_dir, dedup_set) when requests.get
\* behaves as resp and the disk as disk; dedup, fs and uu are the dedup set,
\* the directory and the uuid count before the call.  The result holds the
\* return value and the three after the call, and what happened to the disk.
download_image(resp, disk, dedup, fs, uu) ==
    LET none == [ret |-> NoPath, dedup |-> dedup, files |-> fs, uuids |-> uu,
                 disk |-> "nowrite"]
    IN  IF resp.kind = "raise" THEN none
        ELSE IF resp.code # 200 THEN none
        ELSE LET image_bytes == resp.body
                 hash_val == compute_md5(image_bytes)
                 unique_name == <<uu + 1, hash_val>>
             IN  IF hash_val \in dedup THEN none
                 ELSE IF disk = "open_raises" THEN
                     [ret |-> NoPath, dedup |-> dedup \cup {hash_val},
                      files |-> fs, uuids |-> uu + 1, disk |-> disk]
                 ELSE IF disk = "write_raises" THEN
                     [ret |-> NoPath, dedup |-> dedup \cup {hash_val},
                      files |-> fs \cup {[name |-> unique_name, data |-> "",
                                          complete |-> FALSE]},
                      uuids |-> uu + 1, disk |-> disk]
                 ELSE
                     [ret |-> unique_name, dedup |-> dedup \cup {hash_val},
                      files |-> fs \cup {[name |-> unique_name,
                                          data |-> image_bytes,
                                          complete |-> TRUE]},
                      uuids |-> uu + 1, disk |-> disk]

(***************************************************************************)
(* yandex_images_batch_generator                                           *)
(***************************************************************************)
\* img_url.startswith("data:")
StartsWithData(text) == Len(text) >= 1 /\ text[1] = "data:"

\* the test without its startswith("data:") half
IsPlaceholderNoData(img_url) ==
    \/ ~img_url.present
    \/ img_url.text = <<>>

\* not img_url or img_url.startswith("data:")
IsPlaceholder(img_url) ==
    \/ ~img_url.present
    \/ img_url.text = <<>>
    \/ StartsWithData(img_url.text)

\* the append done whatever download_image returned
AppendAlways(b, file_path) == Append(b, file_path)

\* if file_path: batch.append(file_path)
AppendIfSaved(b, file_path) ==
    IF file_path # NoPath THEN Append(b, file_path) ELSE b

LogEntry(elem, resp, disk, ret) ==
    [elem |-> elem, resp |-> resp, disk |-> disk, ret |-> ret]

\* The first next(): the body runs from its first line to the top of the loop.
Start ==
    /\ pc = "created"
    /\ driver' = "open"
    /\ dedup_set' = {}
    /\ batch' = <<>>
    /\ idx' = 0
    /\ \E n \in 0..MaxCand : images' = n
    /\ pc' = "top"
    /\ UNCHANGED <<batch_size, emitted, files, uuids, requests, scrolls, log>>

\* idx >= len(images): the page is scrolled and lists more elements.
ScrollGrow ==
    /\ pc = "top"
    /\ idx >= images
    /\ \E n \in (idx + 1)..MaxCand : images' = n
    /\ scrolls' = scrolls + 1
    /\ UNCHANGED <<pc, driver, batch_size, dedup_set, batch, idx, emitted,
                   files, uuids, requests, log>>

\* the exit without the yield of the remaining batch
ScrollExhaustedNoFlush ==
    /\ pc = "top"
    /\ idx >= images
    /\ scrolls' = scrolls + 1
    /\ driver' = "quit"
    /\ pc' = "done"
    /\ UNCHANGED <<batch_size, dedup_set, batch, idx, images, emitted, files,
                   uuids, requests, log>>

\* the exit yielding the remaining batch even when it is empty
ScrollExhaustedFlushAlways ==
    /\ pc = "top"
    /\ idx >= images
    /\ scrolls' = scrolls + 1
    /\ emitted' = Append(emitted, batch)
    /\ pc' = "final"
    /\ UNCHANGED <<driver, batch_size, dedup_set, batch, idx, images, files,
                   uuids, requests, log>>

\* idx >= len(images) and the scroll lists nothing new: break, then the
\* remaining batch is yielded if there is one, else driver.quit() and return.
ScrollExhausted ==
    /\ pc = "top"
    /\ idx >= images
    /\ scrolls' = scrolls + 1
    /\ IF batch # <<>>
       THEN /\ emitted' = Append(emitted, batch)
            /\ pc' = "final"
            /\ UNCHANGED driver
       ELSE /\ driver' = "quit"
            /\ pc' = "done"
            /\ UNCHANGED emitted
    /\ UNCHANGED <<batch_size, dedup_set, batch, idx, images, files, uuids,
                   requests, log>>

\* execute_script or find_elements raises: the lines are outside the try, the
\* exception leaves the generator.
ScrollError ==
    /\ pc = "top"
    /\ idx >= images
    /\ scrolls' = scrolls + 1
    /\ pc' = "error"
    /\ UNCHANGED <<driver, batch_size, dedup_set, batch, idx, images, emitted,
                   files, uuids, requests, log>>

\* the except branch without its idx += 1
ElementErrorNoAdvance ==
    /\ pc = "top"
    /\ idx < images
    /\ log' = Append(log, LogEntry(StaleElem, NoResp, "nowrite", NoPath))
    /\ UNCHANGED <<pc, driver, batch_size, dedup_set, batch, idx, images, emitted,
                   files, uuids, requests, scrolls>>

\* get_attribute raises on the element: the except branch logs and moves on.
ElementError ==
    /\ pc = "top"
    /\ idx < images
    /\ idx' = idx + 1
    /\ log' = Append(log, LogEntry(StaleElem, NoResp, "nowrite", NoPath))
    /\ UNCHANGED <<pc, driver, batch_size, dedup_set, batch, images, emitted,
                   files, uuids, requests, scrolls>>

\* the src is missing, empty or inline data: idx += 1; continue
SkipPlaceholder(elem) ==
    /\ pc = "top"
    /\ idx < images
    /\ ~elem.stale
    /\ IsPlaceholder(elem.src)
    /\ idx' = idx + 1
    /\ log' = Append(log, LogEntry(elem, NoResp, "nowrite", NoPath))
    /\ UNCHANGED <<pc, driver, batch_size, dedup_set, batch, images, emitted,
                   files, uuids, requests, scrolls>>

\* a fetchable src: download_image, append on a result, yield a full batch
\* (the generator then waits at the yield, before batch = [] and idx += 1)
DownloadCandidate(elem, resp, disk) ==
    /\ pc = "top"
    /\ idx < images
    /\ ~elem.stale
    /\ ~IsPlaceholder(elem.src)
    /\ LET r == download_image(resp, disk, dedup_set, files, uuids)
           file_path == r.ret
           b == AppendIfSaved(batch, file_path)
       IN  /\ dedup_set' = r.dedup
           /\ files' = r.files
           /\ uuids' = r.uuids
           /\ requests' = requests + 1
           /\ batch' = b
           /\ log' = Append(log, LogEntry(elem, resp, r.disk, file_path))
           /\ IF Len(b) = batch_size
              THEN /\ emitted' = Append(emitted, b)
                   /\ pc' = "yielded"
                   /\ UNCHANGED idx
              ELSE /\ idx' = idx + 1
                   /\ UNCHANGED <<pc, emitted>>
    /\ UNCHANGED <<driver, batch_size, images, scrolls>>

\* the resumption without batch = []
ResumeNoReset ==
    /\ pc = "yielded"
    /\ idx' = idx + 1
    /\ pc' = "top"
    /\ UNCHANGED <<driver, batch_size, dedup_set, batch, images, emitted, files,
                   uuids, requests, scrolls, log>>

\* next() while the generator waits at the yield of the loop
Resume ==
    /\ pc = "yielded"
    /\ batch' = <<>>
    /\ idx' = idx + 1
    /\ pc' = "top"
    /\ UNCHANGED <<driver, batch_size, dedup_set, images, emitted, files,
                   uuids, requests, scrolls, log>>

\* next() while the generator waits at the last yield: driver.quit(), then
\* the generator returns (StopIteration)
ResumeFinal ==
    /\ pc = "final"
    /\ driver' = "quit"
    /\ pc' = "done"
    /\ UNCHANGED <<batch_size, dedup_set, batch, idx, images, emitted, files,
                   uuids, requests, scrolls, log>>

\* The caller leaves its loop with the generator waiting at a yield
\* (already_downloaded >= num_images).  The generator is never resumed; when
\* it is collected GeneratorExit is raised at the yield, which except
\* Exception does not catch and no finally handles.
CallerStop ==
    /\ pc \in {"yielded", "final"}
    /\ pc' = "closed"
    /\ UNCHANGED <<driver, batch_size, dedup_set, batch, idx, images, emitted,
                   files, uuids, requests, scrolls, log>>

\* suppress_inside_bboxes not called
IdleSuppress ==
    /\ spc = "idle"
    /\ sboxes = <<>>
    /\ keep = <<>>
    /\ si = 1
    /\ sj = 1
    /\ cmps = <<>>
    /\ survivors = <<>>

\* no loop over image_pipeline started
IdlePipeline ==
    /\ cell = "cell19"
    /\ source = <<>>
    /\ bno = 0
    /\ ppc = "idle"
    /\ ppos = 1
    /\ counter = 0
    /\ already_downloaded = 0
    /\ num_images = 1
    /\ pdisk = {}
    /\ crops = {}
    /\ csvs = {}
    /\ hist = <<>>

\* no generator created
IdleHarvest ==
    /\ pc = "created"
    /\ driver = "none"
    /\ batch_size = 1
    /\ dedup_set = {}
    /\ batch = <<>>
    /\ idx = 0
    /\ images = 0
    /\ emitted = <<>>
    /\ files = {}
    /\ uuids = 0
    /\ requests = 0
    /\ scrolls = 0
    /\ log = <<>>

\* filter_by_constrain not called
IdleRegions ==
    /\ rpc = "input"
    /\ bboxes = <<>>
    /\ constrain = DefaultConstrain
    /\ accepted = <<>>

Init ==
    /\ pc = "created"
    /\ driver = "none"
    /\ batch_size \in 1..MaxBatchSize
    /\ dedup_set = {}
    /\ batch = <<>>
    /\ idx = 0
    /\ images = 0
    /\ emitted = <<>>
    /\ files = {}
    /\ uuids = 0
    /\ requests = 0
    /\ scrolls = 0
    /\ log = <<>>
    /\ rpc = "input"
    /\ bboxes = <<>>
    /\ constrain = DefaultConstrain
    /\ accepted = <<>>
    /\ IdleSuppress
    /\ IdlePipeline

Next ==
    \/ Start /\ UNCHANGED <<rvars, svars, pvars>>
    \/ ScrollGrow /\ UNCHANGED <<rvars, svars, pvars>>
    \/ ScrollExhausted /\ UNCHANGED <<rvars, svars, pvars>>
    \/ ScrollError /\ UNCHANGED <<rvars, svars, pvars>>
    \/ ElementError /\ UNCHANGED <<rvars, svars, pvars>>
    \/ \E elem \in Elements : SkipPlaceholder(elem) /\ UNCHANGED <<rvars, svars, pvars>>
    \/ \E elem \in Elements, resp \in Responses, disk \in DiskOutcomes :
           DownloadCandidate(elem, resp, disk) /\ UNCHANGED <<rvars, svars, pvars>>
    \/ Resume /\ UNCHANGED <<rvars, svars, pvars>>
    \/ ResumeFinal /\ UNCHANGED <<rvars, svars, pvars>>
    \/ CallerStop /\ UNCHANGED <<rvars, svars, pvars>>

Spec == Init /\ [][Next]_vars

\* The harvest with a caller that calls next() until the generator ends: the
\* steps of the generator, all of which run inside a next() call.  The page
\* lists at most MaxCand elements, however often it is scrolled.
NextPull ==
    \/ Start /\ UNCHANGED <<rvars, svars, pvars>>
    \/ ScrollGrow /\ UNCHANGED <<rvars, svars, pvars>>
    \/ ScrollExhausted /\ UNCHANGED <<rvars, svars, pvars>>
    \/ ScrollError /\ UNCHANGED <<rvars, svars, pvars>>
    \/ ElementError /\ UNCHANGED <<rvars, svars, pvars>>
    \/ \E elem \in Elements : SkipPlaceholder(elem) /\ UNCHANGED <<rvars, svars, pvars>>
    \/ \E elem \in Elements, resp \in Responses, disk \in DiskOutcomes :
           DownloadCandidate(elem, resp, disk) /\ UNCHANGED <<rvars, svars, pvars>>
    \/ Resume /\ UNCHANGED <<rvars, svars, pvars>>
    \/ ResumeFinal /\ UNCHANGED <<rvars, svars, pvars>>

SpecPull == Init /\ [][NextPull]_vars /\ WF_vars(NextPull)


(***************************************************************************)
(* The region filter on bounded inputs.                                    *)
(***************************************************************************)
BoundedBoxes == {<<0, 0, w, h>> : w \in 0..MaxW, h \in 0..MaxH}

RECURSIVE SeqsUpTo(_, _)
SeqsUpTo(S, n) ==
    IF n = 0 THEN {<<>>}
    ELSE LET shorter == SeqsUpTo(S, n - 1)
         IN  shorter \cup {Append(q, e) : q \in {t \in shorter : Len(t) = n - 1}, e \in S}

\* boxes of width 10 with ratios 1.0, 2.0, 4.9, 5.0 and 6.0
RatioBoxes ==
    <<<<0, 0, 10, 10>>, <<0, 0, 10, 20>>, <<0, 0, 10, 49>>, <<0, 0, 10, 50>>,
      <<0, 0, 10, 60>>>>

\* boxes apart from each other, of ratios 2, 1, 3, 2 and 4, the fourth one
\* inside the third
SpreadBoxes ==
    <<<<0, 0, 10, 20>>, <<0, 0, 10, 10>>, <<20, 0, 10, 30>>, <<22, 2, 4, 8>>,
      <<40, 0, 10, 40>>>>

RegionInputs == SeqsUpTo(BoundedBoxes, MaxBoxes) \cup {RatioBoxes, SpreadBoxes}

InitRegions ==
    /\ pc = "created"
    /\ driver = "none"
    /\ batch_size = 1
    /\ dedup_set = {}
    /\ batch = <<>>
    /\ idx = 0
    /\ images = 0
    /\ emitted = <<>>
    /\ files = {}
    /\ uuids = 0
    /\ requests = 0
    /\ scrolls = 0
    /\ log = <<>>
    /\ rpc = "input"
    /\ bboxes \in RegionInputs
    /\ constrain \in Constrains
    /\ accepted = <<>>
    /\ IdleSuppress
    /\ IdlePipeline

\* bbox = filter_by_constrain(bbox)
ApplyFilter ==
    /\ rpc = "input"
    /\ accepted' = filter_by_constrain(bboxes, constrain)
    /\ rpc' = "filtered"
    /\ UNCHANGED <<bboxes, constrain>>
    /\ UNCHANGED <<hvars, svars, pvars>>

\* bbox = suppress_inside_bboxes(bbox)
ApplySuppress ==
    /\ rpc = "filtered"
    /\ survivors' = suppress_inside_bboxes(accepted, DefaultThreshold)
    /\ rpc' = "suppressed"
    /\ UNCHANGED <<bboxes, constrain, accepted>>
    /\ UNCHANGED <<spc, sboxes, keep, si, sj, cmps>>
    /\ UNCHANGED <<hvars, pvars>>



(***************************************************************************)
(* suppress_inside_bboxes, one pair (i, j) of its loops at a time.         *)
(***************************************************************************)
\* longest bounded input list
MaxSuppress == 3

\* Boxes of positive width and height, as filter_by_constrain leaves them:
\* a large box, one of equal area shifted by 2, a small box inside, strips
\* of which 7/10 and 6/10 lie in the large box, a box touching its edge, a
\* distant box, and a chain (70 of ChainB in LargeBox, NestedC in ChainB).
LargeBox == <<0, 0, 10, 10>>
ShiftedBox == <<2, 0, 10, 10>>
InnerBox == <<1, 1, 5, 5>>
Strip7 == <<3, 0, 10, 1>>
Strip6 == <<4, 0, 10, 1>>
TouchingBox == <<10, 0, 5, 5>>
FarBox == <<20, 20, 2, 2>>
ChainB == <<5, 0, 7, 10>>
NestedC == <<9, 0, 3, 10>>
SuppressBoxes ==
    {LargeBox, ShiftedBox, InnerBox, Strip7, Strip6, TouchingBox, FarBox,
     ChainB, NestedC}

\* the large box (0,0,100,100) and the small box (10,10,50,50) inside it
ContainedPair == <<<<0, 0, 100, 100>>, <<10, 10, 50, 50>>>>

SuppressInputs == SeqsUpTo(SuppressBoxes, MaxSuppress) \cup {ContainedPair}

\* bboxes = np.array(list(bboxes)); keep = [True] * len(bboxes)
InitSuppress ==
    /\ IdleHarvest
    /\ IdleRegions
    /\ IdlePipeline
    /\ spc = "loop"
    /\ sboxes \in SuppressInputs
    /\ keep = [n \in 1..Len(sboxes) |-> TRUE]
    /\ si = 1
    /\ sj = 1
    /\ cmps = <<>>
    /\ survivors = <<>>

\* for i ...: for j ...: the next pair
NextPair ==
    IF sj < Len(sboxes)
    THEN /\ sj' = sj + 1
         /\ UNCHANGED si
    ELSE /\ si' = si + 1
         /\ sj' = 1

\* one pass of the inner loop that ends at the continue
SuppressSkip ==
    /\ spc = "loop"
    /\ si <= Len(sboxes)
    /\ SkipPair(keep, si, sj)
    /\ NextPair
    /\ UNCHANGED <<spc, sboxes, keep, cmps, survivors>>
    /\ UNCHANGED <<hvars, rvars, pvars>>

\* one pass of the inner loop that compares boxes i and j
SuppressCompare ==
    /\ spc = "loop"
    /\ si <= Len(sboxes)
    /\ ~SkipPair(keep, si, sj)
    /\ keep' = ComparePair(sboxes, keep, si, sj, DefaultThreshold)
    /\ cmps' = Append(cmps, <<si, sj>>)
    /\ NextPair
    /\ UNCHANGED <<spc, sboxes, survivors>>
    /\ UNCHANGED <<hvars, rvars, pvars>>

\* return bboxes[keep]
SuppressReturn ==
    /\ spc = "loop"
    /\ si > Len(sboxes)
    /\ survivors' = BoolIndex(sboxes, keep)
    /\ spc' = "returned"
    /\ UNCHANGED <<sboxes, keep, si, sj, cmps>>
    /\ UNCHANGED <<hvars, rvars, pvars>>

NextSuppress ==
    \/ SuppressSkip
    \/ SuppressCompare
    \/ SuppressReturn

SpecSuppress == InitSuppress /\ [][NextSuppress]_vars


(***************************************************************************)
(* get_image_and_bboxes, extract_and_save_bboxes, image_pipeline and the   *)
(* loops of cells 17 and 19 that call image_pipeline.  The generator is    *)
(* represented by the batches it yields; one prompt is followed.           *)
(***************************************************************************)
\* images the source ever delivers
MaxImages == 2

\* a file of downloaded_dir, f"{uuid.uuid4().hex}_{hash_val}.png": n stands
\* for the text before the extension, different for different files
ImagePath(n) == [stem |-> n, ext |-> "png"]

\* os.path.splitext(os.path.basename(image_path))[0]
base_name(image_path) == image_path.stem

\* n paths cut into batches of batch_size, the last one shorter
Chunks(n, size) ==
    [b \in 1..((n + size - 1) \div size) |->
        [m \in 1..Min2(size, n - (b - 1) * size) |-> ImagePath((b - 1) * size + m)]]

\* What Image.open, convert and mask_generator.generate do for one image:
\* one of them raises, or the oracle returns the "bbox" entries of its masks.
\* The boxes are whole numbers, on which astype(int) changes nothing.
DecodeError == [kind |-> "decode_raises", boxes |-> <<>>]
OracleError == [kind |-> "generate_raises", boxes |-> <<>>]

\* no mask at all
NoBoxes == <<>>
\* one box of ratio 1
SquareOnly == <<<<0, 0, 10, 10>>>>
\* ratio 1, then ratio 2 with area 200, then ratio 2 with area 32 inside it
ThreeBoxes == <<<<0, 0, 10, 10>>, <<0, 0, 10, 20>>, <<2, 2, 4, 8>>>>
\* the contained box first, then ratio 6, then the large box
ThreeBoxesReordered == <<<<2, 2, 4, 8>>, <<0, 0, 1, 6>>, <<0, 0, 10, 20>>>>
\* a box of zero width and a box of ratio 2
ZeroWidthAndGood == <<<<5, 5, 0, 3>>, <<0, 0, 10, 20>>>>
\* two disjoint boxes of ratios 2 and 3
TwoRegions == <<<<0, 0, 10, 20>>, <<20, 0, 10, 30>>>>

OracleLists ==
    {NoBoxes, SquareOnly, ThreeBoxes, ThreeBoxesReordered, ZeroWidthAndGood, TwoRegions}

OracleOutcomes ==
    {DecodeError, OracleError} \cup {[kind |-> "boxes", boxes |-> b] : b \in OracleLists}

\* the (image, bbox) pair returned by get_image_and_bboxes: (None, None), or
\* the image with its boxes; "raised" is an exception leaving the function
NoneResult == [kind |-> "none", bbox |-> <<>>]
RaisedResult == [kind |-> "raised", bbox |-> <<>>]

\* without the except clause
get_image_and_bboxes_uncaught(outcome) ==
    IF outcome.kind # "boxes" THEN RaisedResult
    ELSE [kind |-> "value",
          bbox |-> suppress_inside_bboxes(
                       filter_by_constrain(outcome.boxes, DefaultConstrain),
                       DefaultThreshold)]

\* without the call of suppress_inside_bboxes
get_image_and_bboxes_nosuppress(outcome) ==
    IF outcome.kind # "boxes" THEN NoneResult
    ELSE [kind |-> "value",
          bbox |-> filter_by_constrain(outcome.boxes, DefaultConstrain)]

get_image_and_bboxes(outcome) ==
    IF outcome.kind # "boxes" THEN NoneResult
    ELSE [kind |-> "value",
          bbox |-> suppress_inside_bboxes(
                       filter_by_constrain(outcome.boxes, DefaultConstrain),
                       DefaultThreshold)]

\* f"{base_name}_{idx}.png" and f"{base_name}.csv"
CropName(base, index) == <<base, index, "png">>
CsvName(base) == <<base, "csv">>

\* the rows with the file names counted from 1
csv_rows_one_based(base, boxes) ==
    [n \in 1..Len(boxes) |->
        [X |-> boxes[n][1], Y |-> boxes[n][2], W |-> boxes[n][3], H |-> boxes[n][4],
         FileName |-> CropName(base, n)]]

\* csv_rows after the loop over enumerate(bboxes.astype(int))
csv_rows(base, boxes) ==
    [n \in 1..Len(boxes) |->
        [X |-> boxes[n][1], Y |-> boxes[n][2], W |-> boxes[n][3], H |-> boxes[n][4],
         FileName |-> CropName(base, n - 1)]]

\* What the file system does during extract_and_save_bboxes on n boxes:
\* nothing; cv2.imwrite raises at crop number at (from 0); cv2.imwrite
\* writes no file for crop number at and returns False, which the code does
\* not look at; open() of the csv file raises; writing the csv file raises
\* and leaves it without rows.
NoFault == [kind |-> "none", at |-> 0]
PersistFaults(n) ==
    {[kind |-> "imwrite", at |-> k] : k \in 0..(n - 1)}
        \cup {[kind |-> "imwrite_false", at |-> k] : k \in 0..(n - 1)}
        \cup {[kind |-> "csv_open", at |-> n], [kind |-> "csv_write", at |-> n]}

\* the effect of extract_and_save_bboxes on bboxes_dir and csv_dir
extract_and_save_bboxes(boxes, image_path, fault, cr, cs) ==
    LET base == base_name(image_path)
        written == IF fault.kind = "imwrite" THEN 0..(fault.at - 1)
                   ELSE IF fault.kind = "imwrite_false"
                       THEN (0..(Len(boxes) - 1)) \ {fault.at}
                   ELSE 0..(Len(boxes) - 1)
        others == {c \in cs : c.name # CsvName(base)}
    IN  [raised |-> fault.kind \notin {"none", "imwrite_false"},
         crops |-> cr \cup {CropName(base, k) : k \in written},
         csvs |-> IF fault.kind \in {"none", "imwrite_false"}
                      THEN others \cup {[name |-> CsvName(base),
                                         rows |-> csv_rows(base, boxes)]}
                  ELSE IF fault.kind = "csv_write"
                      THEN others \cup {[name |-> CsvName(base), rows |-> <<>>]}
                  ELSE cs]

\* the test of image_pipeline without its len(bbox) == 0 half
PipelineRejectsNoneOnly(result) == result.kind = "none"

\* image is None or len(bbox) == 0
PipelineRejects(result) == result.kind = "none" \/ Len(result.bbox) = 0

\* image_pipeline: its status ("True", "False", or "raised" when an exception
\* leaves it), the boxes it got, and the directories afterwards
image_pipeline(image_path, outcome, fault, cr, cs) ==
    LET result == get_image_and_bboxes(outcome)
    IN  IF result.kind = "raised"
            THEN [status |-> "raised", bbox |-> result, crops |-> cr, csvs |-> cs]
        ELSE IF PipelineRejects(result)
            THEN [status |-> "False", bbox |-> result, crops |-> cr, csvs |-> cs]
        ELSE LET e == extract_and_save_bboxes(result.bbox, image_path, fault, cr, cs)
             IN  [status |-> IF e.raised THEN "raised" ELSE "True",
                  bbox |-> result, crops |-> e.crops, csvs |-> e.csvs]

\* the faults that can act on an image: those of the persist step when it runs
FaultsFor(outcome) ==
    LET result == get_image_and_bboxes(outcome)
    IN  IF result.kind = "raised" \/ PipelineRejects(result) THEN {NoFault}
        ELSE {NoFault} \cup PersistFaults(Len(result.bbox))

HistEntry(image_path, outcome, fault, p, rm) ==
    [path |-> image_path, outcome |-> outcome, fault |-> fault, bbox |-> p.bbox,
     status |-> p.status, rm |-> rm]

\* image_pipeline after get_image_and_bboxes on the boxes of SpecRegions:
\* with at least one region, extract_and_save_bboxes writes the crops and
\* the csv file of the image
ApplyExtract ==
    /\ rpc = "suppressed"
    /\ ~PipelineRejects([kind |-> "value", bbox |-> survivors])
    /\ LET e == extract_and_save_bboxes(survivors, ImagePath(1), NoFault, crops, csvs)
       IN  /\ crops' = e.crops
           /\ csvs' = e.csvs
    /\ rpc' = "saved"
    /\ UNCHANGED <<bboxes, constrain, accepted>>
    /\ UNCHANGED svars
    /\ UNCHANGED <<cell, source, bno, ppc, ppos, counter, already_downloaded,
                   num_images, pdisk, hist>>
    /\ UNCHANGED hvars

NextRegions == ApplyFilter \/ ApplySuppress \/ ApplyExtract

SpecRegions == InitRegions /\ [][NextRegions]_vars

\* path in the for loop of the cell
CurrentBatch == source[bno]
CurrentPath == CurrentBatch[ppos]

InitPipeline ==
    /\ IdleHarvest
    /\ IdleRegions
    /\ IdleSuppress
    /\ cell \in {"cell19", "cell17"}
    /\ \E n \in 0..MaxImages :
           IF cell = "cell19"
               THEN \E size \in 1..MaxBatchSize : source = Chunks(n, size)
               ELSE source = <<[m \in 1..n |-> ImagePath(m)]>>
    /\ bno = IF cell = "cell19" THEN 0 ELSE 1
    /\ ppc = IF cell = "cell19" THEN "next" ELSE "item"
    /\ ppos = 1
    /\ counter = 0
    /\ already_downloaded = 0
    /\ num_images \in IF cell = "cell19" THEN 1..MaxImages ELSE {1}
    /\ pdisk = IF cell = "cell19" THEN {}
               ELSE {source[1][m] : m \in 1..Len(source[1])}
    /\ crops = {}
    /\ csvs = {}
    /\ hist = <<>>

\* batch = next(generator); counter = 0: the files of the batch are on disk
PullBatch ==
    /\ cell = "cell19"
    /\ ppc = "next"
    /\ bno < Len(source)
    /\ bno' = bno + 1
    /\ ppos' = 1
    /\ counter' = 0
    /\ ppc' = "item"
    /\ pdisk' = pdisk \cup {source[bno + 1][m] : m \in 1..Len(source[bno + 1])}
    /\ UNCHANGED <<cell, source, already_downloaded, num_images, crops, csvs, hist>>
    /\ UNCHANGED <<hvars, rvars, svars>>

\* next(generator) raises StopIteration: except StopIteration: break
PullStop ==
    /\ cell = "cell19"
    /\ ppc = "next"
    /\ bno = Len(source)
    /\ ppc' = "exhausted"
    /\ UNCHANGED <<cell, source, bno, ppos, counter, already_downloaded, num_images,
                   pdisk, crops, csvs, hist>>
    /\ UNCHANGED <<hvars, rvars, svars>>

\* the rejection without the call of os.remove
ImageRejectedKeepsFile(outcome, rm) ==
    /\ ppc = "item"
    /\ ppos <= Len(CurrentBatch)
    /\ LET p == image_pipeline(CurrentPath, outcome, NoFault, crops, csvs)
       IN  /\ p.status = "False"
           /\ rm \in IF cell = "cell19" THEN {"ok", "raises"} ELSE {"none"}
           /\ hist' = Append(hist, HistEntry(CurrentPath, outcome, NoFault, p, rm))
    /\ ppos' = ppos + 1
    /\ UNCHANGED <<cell, source, bno, ppc, counter, already_downloaded, num_images,
                   pdisk, crops, csvs>>
    /\ UNCHANGED <<hvars, rvars, svars>>

\* image_pipeline returns False; cell 19 then calls os.remove(path), whose
\* exception is passed over
ImageRejected(outcome, rm) ==
    /\ ppc = "item"
    /\ ppos <= Len(CurrentBatch)
    /\ LET p == image_pipeline(CurrentPath, outcome, NoFault, crops, csvs)
       IN  /\ p.status = "False"
           /\ rm \in IF cell = "cell19" THEN {"ok", "raises"} ELSE {"none"}
           /\ pdisk' = IF rm = "ok" THEN pdisk \ {CurrentPath} ELSE pdisk
           /\ hist' = Append(hist, HistEntry(CurrentPath, outcome, NoFault, p, rm))
    /\ ppos' = ppos + 1
    /\ UNCHANGED <<cell, source, bno, ppc, counter, already_downloaded, num_images,
                   crops, csvs>>
    /\ UNCHANGED <<hvars, rvars, svars>>

\* image_pipeline returns True; cell 19 counts it
ImageSaved(outcome, fault) ==
    /\ ppc = "item"
    /\ ppos <= Len(CurrentBatch)
    /\ fault \in FaultsFor(outcome)
    /\ LET p == image_pipeline(CurrentPath, outcome, fault, crops, csvs)
       IN  /\ p.status = "True"
           /\ crops' = p.crops
           /\ csvs' = p.csvs
           /\ hist' = Append(hist, HistEntry(CurrentPath, outcome, fault, p, "none"))
    /\ counter' = IF cell = "cell19" THEN counter + 1 ELSE counter
    /\ ppos' = ppos + 1
    /\ UNCHANGED <<cell, source, bno, ppc, already_downloaded, num_images, pdisk>>
    /\ UNCHANGED <<hvars, rvars, svars>>

\* An exception leaves image_pipeline.  Cell 17 catches it, logs it and goes
\* on; in cell 19 only StopIteration is caught and the exception leaves the
\* cell.
ImageRaised(outcome, fault) ==
    /\ ppc = "item"
    /\ ppos <= Len(CurrentBatch)
    /\ fault \in FaultsFor(outcome)
    /\ LET p == image_pipeline(CurrentPath, outcome, fault, crops, csvs)
       IN  /\ p.status = "raised"
           /\ crops' = p.crops
           /\ csvs' = p.csvs
           /\ hist' = Append(hist, HistEntry(CurrentPath, outcome, fault, p, "none"))
    /\ IF cell = "cell19"
           THEN ppc' = "aborted" /\ UNCHANGED ppos
           ELSE ppos' = ppos + 1 /\ UNCHANGED ppc
    /\ UNCHANGED <<cell, source, bno, counter, already_downloaded, num_images, pdisk>>
    /\ UNCHANGED <<hvars, rvars, svars>>

\* cell 19 after the for loop: already_downloaded += len(batch), then break
\* when already_downloaded >= num_images
BatchDone ==
    /\ cell = "cell19"
    /\ ppc = "item"
    /\ ppos > Len(CurrentBatch)
    /\ already_downloaded' = already_downloaded + Len(CurrentBatch)
    /\ ppc' = IF already_downloaded' >= num_images THEN "stopped" ELSE "next"
    /\ UNCHANGED <<cell, source, bno, ppos, counter, num_images, pdisk, crops, csvs,
                   hist>>
    /\ UNCHANGED <<hvars, rvars, svars>>

\* cell 17 after the last path of image_paths
DirectoryDone ==
    /\ cell = "cell17"
    /\ ppc = "item"
    /\ ppos > Len(CurrentBatch)
    /\ ppc' = "exhausted"
    /\ UNCHANGED <<cell, source, bno, ppos, counter, already_downloaded, num_images,
                   pdisk, crops, csvs, hist>>
    /\ UNCHANGED <<hvars, rvars, svars>>

NextPipeline ==
    \/ PullBatch
    \/ PullStop
    \/ \E outcome \in OracleOutcomes, rm \in {"ok", "raises", "none"} :
           ImageRejected(outcome, rm)
    \/ \E outcome \in OracleOutcomes :
           \E fault \in FaultsFor(outcome) : ImageSaved(outcome, fault)
    \/ \E outcome \in OracleOutcomes :
           \E fault \in FaultsFor(outcome) : ImageRaised(outcome, fault)
    \/ BatchDone
    \/ DirectoryDone

SpecPipeline == InitPipeline /\ [][NextPipeline]_vars


(***************************************************************************)
(* Vocabulary of the properties.                                           *)
(***************************************************************************)
RECURSIVE Flatten(_)
Flatten(batches) ==
    IF batches = <<>> THEN <<>> ELSE Head(batches) \o Flatten(Tail(batches))

\* the paths download_image returned, in the order of the candidates
RECURSIVE SavedPaths(_)
SavedPaths(entries) ==
    IF entries = <<>> THEN <<>>
    ELSE IF Head(entries).ret # NoPath
         THEN <<Head(entries).ret>> \o SavedPaths(Tail(entries))
         ELSE SavedPaths(Tail(entries))

NoRepeat(q) == \A i, j \in 1..Len(q) : i # j => q[i] # q[j]

Fetched(e) == e.resp.kind # "none"
Got200(e) == e.resp.kind = "http" /\ e.resp.code = 200
DiskFault(e) == e.disk \in {"open_raises", "write_raises"}
\* the call ended in a failure: requests.get raised, a status other than 200,
\* or the file could not be written
Failed(e) == Fetched(e) /\ (~Got200(e) \/ DiskFault(e))
\* the call met no fault at all
FaultFree(e) == Got200(e) /\ ~DiskFault(e)
Saved(e) == e.ret # NoPath
\* the candidate the step from this state to the next has processed
Processed == Len(log') = Len(log) + 1
Latest == log'[Len(log')]

(***************************************************************************)
(* C1: within one session, of two download_image calls whose fetches        *)
(* succeed with the same content, the first returns a saved image and the  *)
(* second returns no result and writes no file.  "Succeed" is read in the  *)
(* claim's favour: status 200 and no fault of any kind in the call.        *)
(***************************************************************************)
C1_SecondIsDuplicate ==
    \A i, j \in 1..Len(log) :
        ( /\ i < j
          /\ FaultFree(log[i])
          /\ FaultFree(log[j])
          /\ log[i].resp.body = log[j].resp.body
          /\ \A h \in 1..(i - 1) :
                 ~(FaultFree(log[h]) /\ log[h].resp.body = log[i].resp.body) )
        => /\ Saved(log[i])
           /\ ~Saved(log[j])
           /\ log[j].disk = "nowrite"

(***************************************************************************)
(* C2: a download_image call that returns no result because of a failure   *)
(* (status other than 200, an exception of requests.get, a failing file    *)
(* write) leaves the dedup set as it was.                                  *)
(***************************************************************************)
C2_FailureKeepsDedupSet ==
    [][(Processed /\ Failed(Latest)) => dedup_set' = dedup_set]_vars

(***************************************************************************)
(* C3: after any sequence of download_image calls there are as many files  *)
(* as fingerprints in the dedup set, and every fingerprint of the set has  *)
(* its file, holding the content of that fingerprint.                      *)
(***************************************************************************)
C3_OneFilePerFingerprint ==
    /\ Cardinality(files) = Cardinality(dedup_set)
    /\ \A h \in dedup_set :
           \E f \in files : f.name[2] = h /\ f.complete /\ compute_md5(f.data) = h

(***************************************************************************)
(* C4: a harvest run to exhaustion over N valid candidates of pairwise     *)
(* distinct content, all fetched and saved, with batch_size k >= 1, yields *)
(* ceil(N/k) batches, all of k items but the last, which has 1..k, and N    *)
(* items in total.                                                         *)
(***************************************************************************)
AllValidUnique ==
    /\ \A i \in 1..Len(log) :
           /\ ~log[i].elem.stale
           /\ log[i].elem.src = HttpUrl
           /\ FaultFree(log[i])
    /\ \A i, j \in 1..Len(log) : i # j => log[i].resp.body # log[j].resp.body

C4_BatchSizing ==
    (pc = "done" /\ AllValidUnique) =>
        LET N == Len(log)
            k == batch_size
            n == Len(emitted)
        IN  /\ n = (N + k - 1) \div k
            /\ \A b \in 1..(n - 1) : Len(emitted[b]) = k
            /\ n > 0 => Len(emitted[n]) \in 1..k
            /\ Len(Flatten(emitted)) = N

C4_Witness ==
    /\ pc = "done"
    /\ AllValidUnique
    /\ Len(log) = 3
    /\ batch_size = 2
    /\ Len(emitted) = 2
    /\ Len(emitted[2]) = 1

(***************************************************************************)
(* C5: the browser session opened by a harvest call is released            *)
(* (driver.quit) on every exit path: exhaustion, the caller stopping after *)
(* a batch, an error leaving the loop.                                     *)
(***************************************************************************)
C5_SessionReleased ==
    pc \in {"done", "closed", "error"} => driver = "quit"

(***************************************************************************)
(* C6: a candidate whose fetch fails, whose content is a duplicate or      *)
(* whose processing raises leaves the batch as it was, moves the cursor by *)
(* one and the generator goes on: nothing is emitted, no error leaves it.  *)
(***************************************************************************)
C6_ItemFailureNotFatal ==
    [][(Processed /\ (Latest.elem.stale \/ Fetched(Latest)) /\ ~Saved(Latest))
        => /\ batch' = batch
           /\ idx' = idx + 1
           /\ emitted' = emitted
           /\ pc' = "top"]_vars

\* a failed fetch, then a duplicate, and the harvest still ends normally
\* with the one saved item delivered
C6_Witness ==
    /\ pc = "done"
    /\ Len(log) = 3
    /\ Saved(log[1])
    /\ Failed(log[2])
    /\ Got200(log[3]) /\ log[3].resp.body = log[1].resp.body
    /\ Flatten(emitted) = <<log[1].ret>>

(***************************************************************************)
(* C7: with the cursor at the end of the known list the source is asked to *)
(* advance exactly once; when nothing new is listed the batch is emitted   *)
(* iff it is non-empty and the sequence ends: no batch emitted is empty.   *)
(***************************************************************************)
C7_ExhaustionStep ==
    (pc = "top" /\ idx >= images /\ pc' # "error") =>
        /\ scrolls' = scrolls + 1
        /\ images' <= idx =>
               /\ batch # <<>> => emitted' = Append(emitted, batch) /\ pc' = "final"
               /\ batch = <<>> => emitted' = emitted /\ pc' = "done"
        /\ images' > idx => emitted' = emitted /\ batch' = batch /\ pc' = "top"

C7_FlushAtExhaustion ==
    /\ [][C7_ExhaustionStep]_vars
    /\ [][(pc = "top" /\ idx < images) => scrolls' = scrolls]_vars
    /\ [][pc = "final" => (pc' \in {"done", "closed"} /\ emitted' = emitted)]_vars
    /\ [](\A b \in 1..Len(emitted) : emitted[b] # <<>>)

C7_Witness ==
    /\ pc = "done"
    /\ batch_size = 2
    /\ scrolls = 2
    /\ Len(emitted) = 2
    /\ Len(emitted[2]) = 1

(***************************************************************************)
(* C8: for a harvest run to exhaustion the emitted batches, concatenated   *)
(* in emission order, are exactly the saved candidates in the order the    *)
(* source listed them, none missing and none twice.                        *)
(***************************************************************************)
C8_DiscoveryOrder ==
    pc = "done" =>
        /\ Flatten(emitted) = SavedPaths(log)
        /\ NoRepeat(Flatten(emitted))

C8_Witness ==
    /\ pc = "done"
    /\ batch_size = 1
    /\ Len(emitted) = 2
    /\ Len(log) = 3
    /\ ~Saved(log[2])

(***************************************************************************)
(* C9: a candidate whose src is missing, empty or starts with "data:" is   *)
(* not passed to the fetcher: no request, the dedup set, the batch and the *)
(* directory unchanged, the cursor moved by exactly one.                   *)
(***************************************************************************)
C9_PlaceholderSkipped ==
    [][(Processed /\ ~Latest.elem.stale
            /\ Latest.elem.src \in {NoUrl, EmptyUrl, DataUrl})
        => /\ requests' = requests
           /\ Latest.resp = NoResp
           /\ dedup_set' = dedup_set
           /\ batch' = batch
           /\ files' = files
           /\ emitted' = emitted
           /\ idx' = idx + 1]_vars

C9_Witness ==
    /\ Len(log) = 3
    /\ idx = 3
    /\ requests = 0
    /\ {log[i].elem.src : i \in 1..3} = {NoUrl, EmptyUrl, DataUrl}
    /\ \A i \in 1..3 : ~log[i].elem.stale

(***************************************************************************)
(* C10: filter_by_constrain returns exactly the input boxes whose ratio    *)
(* h/w lies strictly between low and high, in their order, each box        *)
(* decided on its own; of the boxes with ratios 1.0, 2.0, 4.9, 5.0, 6.0    *)
(* under (1.5, 5) those of ratio 2.0 and 4.9 survive.                      *)
(***************************************************************************)
\* low < h/w < high, for a box of positive width
StrictlyBetween(box, c) ==
    /\ box[3] > 0
    /\ c[1].num * box[3] < box[4] * c[1].den
    /\ box[4] * c[2].den < c[2].num * box[3]

C10_AspectFilter ==
    rpc = "filtered" =>
        /\ accepted = SelectSeq(bboxes, LAMBDA box : StrictlyBetween(box, constrain))
        /\ \A i \in 1..Len(bboxes) :
               filter_by_constrain(<<bboxes[i]>>, constrain) =
                   IF StrictlyBetween(bboxes[i], constrain) THEN <<bboxes[i]>> ELSE <<>>
        /\ (bboxes = RatioBoxes /\ constrain = DefaultConstrain)
               => accepted = <<<<0, 0, 10, 20>>, <<0, 0, 10, 49>>>>

C10_Witness ==
    /\ rpc = "filtered"
    /\ bboxes = RatioBoxes
    /\ constrain = DefaultConstrain
    /\ Len(accepted) = 2


(***************************************************************************)
(* Vocabulary of the properties of suppress_inside_bboxes.                 *)
(***************************************************************************)
\* at least the threshold fraction of box small lies in box other
MostlyIn(small, other, threshold) ==
    intersection_area(small, other) * threshold.den
        >= threshold.num * bbox_area(small)

Compared == cmps' # cmps

(***************************************************************************)
(* C11: in the output of suppress_inside_bboxes, for every two surviving   *)
(* regions of different area the intersection divided by the area of the   *)
(* smaller one is below the threshold 0.7.                                 *)
(***************************************************************************)
C11_NoEnclosedSurvivor ==
    spc = "returned" =>
        /\ survivors = suppress_inside_bboxes(sboxes, DefaultThreshold)
        /\ \A p, q \in 1..Len(survivors) :
               bbox_area(survivors[p]) < bbox_area(survivors[q])
                   => intersection_area(survivors[p], survivors[q]) * DefaultThreshold.den
                          < DefaultThreshold.num * bbox_area(survivors[p])

\* the strip with exactly 7/10 inside the large box is gone, the one with
\* 6/10 inside is kept
C11_Witness ==
    /\ spc = "returned"
    /\ sboxes = <<LargeBox, Strip7, Strip6>>
    /\ survivors = <<LargeBox, Strip6>>

(***************************************************************************)
(* C12: suppress_inside_bboxes discards a region only when a region of     *)
(* strictly larger area, kept at that moment, covers at least the          *)
(* threshold fraction of it; two regions of equal area never suppress each *)
(* other; a region overlapping no other region is kept; of (0,0,100,100)   *)
(* and (10,10,50,50) exactly the large box survives.                       *)
(***************************************************************************)
C12_DiscardStep ==
    \A k \in DOMAIN keep :
        (keep[k] /\ ~keep'[k]) =>
            \E m \in DOMAIN keep :
                /\ m # k
                /\ keep[m]
                /\ bbox_area(sboxes[m]) > bbox_area(sboxes[k])
                /\ MostlyIn(sboxes[k], sboxes[m], DefaultThreshold)

C12_TieStep ==
    (Compared /\ bbox_area(sboxes[si]) = bbox_area(sboxes[sj])) => keep' = keep

C12_OnlyLargerSuppresses ==
    /\ [][C12_DiscardStep]_vars
    /\ [][C12_TieStep]_vars
    /\ [](spc = "returned" =>
            \A k \in DOMAIN keep :
                (\A m \in DOMAIN keep \ {k} :
                     intersection_area(sboxes[k], sboxes[m]) = 0) => keep[k])
    /\ [](spc = "returned" =>
            /\ survivors = BoolIndex(sboxes, keep)
            /\ sboxes = ContainedPair => survivors = <<<<0, 0, 100, 100>>>>)

\* two overlapping boxes of equal area are both kept, the small box inside
\* them is discarded
C12_Witness ==
    /\ spc = "returned"
    /\ sboxes = <<ShiftedBox, InnerBox, LargeBox>>
    /\ survivors = <<ShiftedBox, LargeBox>>

(***************************************************************************)
(* C18: during one pass of suppress_inside_bboxes keep only changes from   *)
(* kept to discarded; a discarded region is never kept again and takes     *)
(* part in no later comparison, so it is neither tested again nor the      *)
(* cause of another discard.                                               *)
(***************************************************************************)
C18_Step ==
    /\ \A k \in DOMAIN keep : ~keep[k] => ~keep'[k]
    /\ Compared =>
           /\ cmps' = Append(cmps, <<si, sj>>)
           /\ si # sj
           /\ keep[si]
           /\ keep[sj]
    /\ keep' # keep =>
           /\ Compared
           /\ \A k \in DOMAIN keep : keep'[k] # keep[k] => k \in {si, sj}

C18_DiscardMonotone == [][C18_Step]_vars

\* the inner box is discarded at the first comparison and is in none of the
\* later ones
C18_Witness ==
    /\ spc = "returned"
    /\ sboxes = <<LargeBox, InnerBox, FarBox>>
    /\ keep = <<TRUE, FALSE, TRUE>>
    /\ cmps = <<<<1, 2>>, <<1, 3>>, <<3, 1>>>>


(***************************************************************************)
(* C20: every region returned by the two filter stages has width > 0 and   *)
(* height > 0, for any boxes of non-negative dimensions: a box of zero     *)
(* width or zero height is rejected by filter_by_constrain and the other   *)
(* boxes are filtered as if it were not there.                             *)
(***************************************************************************)
PositiveBox(box) == box[3] > 0 /\ box[4] > 0

C20_PositiveRegions ==
    /\ rpc \in {"filtered", "suppressed"} =>
           /\ \A n \in 1..Len(accepted) : PositiveBox(accepted[n])
           /\ accepted = filter_by_constrain(SelectSeq(bboxes, PositiveBox), constrain)
    /\ rpc = "suppressed" =>
           /\ \A n \in 1..Len(survivors) : PositiveBox(survivors[n])
           /\ survivors = suppress_inside_bboxes(
                  filter_by_constrain(SelectSeq(bboxes, PositiveBox), constrain),
                  DefaultThreshold)

\* a box of zero width next to a good box: the good box is the result
C20_Witness ==
    /\ rpc = "suppressed"
    /\ bboxes = <<<<0, 0, 0, 3>>, <<0, 0, 1, 2>>>>
    /\ constrain = DefaultConstrain
    /\ survivors = <<<<0, 0, 1, 2>>>>


(***************************************************************************)
(* Vocabulary of the properties of the pipeline.                           *)
(***************************************************************************)
\* the crop files and the metadata files written under a base name
CropsOf(base) == {c \in crops : c[1] = base}
CsvsOf(base) == {c \in csvs : c.name = CsvName(base)}

Entries == {hist[n] : n \in 1..Len(hist)}

\* the images of the batches pulled so far
PulledImages == UNION {{source[b][m] : m \in 1..Len(source[b])} : b \in 1..bno}

\* the loop is between two batches or has ended without an exception
BetweenBatches == ppc \in {"next", "stopped", "exhausted"}

\* this step is an image_pipeline call on an image whose decoding or oracle
\* call fails
OracleFailureStep ==
    /\ Len(hist') = Len(hist) + 1
    /\ hist'[Len(hist')].outcome.kind # "boxes"

C15_OracleFailureLocal ==
    /\ [](\A e \in Entries :
              e.outcome.kind # "boxes" =>
                  /\ e.bbox = NoneResult
                  /\ e.status = "False"
                  /\ CropsOf(base_name(e.path)) = {}
                  /\ CsvsOf(base_name(e.path)) = {})
    /\ [][OracleFailureStep => (ppc' = "item" /\ ppos' = ppos + 1)]_vars
    /\ [](BetweenBatches => {e.path : e \in Entries} = PulledImages)

\* the first image of a batch failed in the oracle, the second was saved
C15_Witness ==
    /\ cell = "cell19"
    /\ bno = 1
    /\ Len(hist) = 2
    /\ hist[1].outcome = OracleError
    /\ hist[1].status = "False"
    /\ hist[2].status = "True"
    /\ hist[2].fault = NoFault

(***************************************************************************)
(* C16: a failure while writing the crops or the metadata of one image     *)
(* does not end the harvest driver loop: it ends only by exhaustion of the *)
(* source or by the caller's stop condition.                               *)
(***************************************************************************)
C16_PersistFaultLocal == cell = "cell19" => ppc # "aborted"

(***************************************************************************)
(* C17: when the oracle proposes 3 boxes of which one has a ratio outside  *)
(* (1.5, 5) and one of the two others is mostly contained in the strictly  *)
(* larger remaining one, exactly 1 region is accepted and, when no write   *)
(* fails, 1 crop file and 1 metadata row are written and image_pipeline    *)
(* returns True.                                                           *)
(***************************************************************************)
C17_Case(boxes) ==
    /\ Len(boxes) = 3
    /\ \E a, b, c \in 1..3 :
           /\ {a, b, c} = 1..3
           /\ ~StrictlyBetween(boxes[a], DefaultConstrain)
           /\ StrictlyBetween(boxes[b], DefaultConstrain)
           /\ StrictlyBetween(boxes[c], DefaultConstrain)
           /\ bbox_area(boxes[b]) < bbox_area(boxes[c])
           /\ MostlyIn(boxes[b], boxes[c], DefaultThreshold)

C19_IterationStep ==
    /\ idx' \in {idx, idx + 1}
    /\ (pc = "top" /\ pc' = "top") =>
           \/ idx' = idx + 1
           \/ idx >= images /\ images' > images /\ idx' = idx
    /\ (pc = "yielded" /\ pc' = "top") => idx' = idx + 1
    /\ (pc = "top" /\ pc' \in {"final", "done"}) =>
           idx >= images /\ images' = images /\ idx' = idx
    /\ (pc # "error" /\ pc' = "error") =>
           pc = "top" /\ idx >= images /\ scrolls' = scrolls + 1

C19_HarvestTerminates ==
    /\ <>(pc \in {"done", "error"})
    /\ [][C19_IterationStep]_vars
    /\ [](pc = "done" => (idx >= images /\ driver = "quit"))

\* the generator has returned after an element error, a placeholder and a
\* failed fetch
C19_Witness ==
    /\ pc = "done"
    /\ Len(log) = 3
    /\ \E a, b, c \in 1..3 :
           /\ log[a].elem = StaleElem
           /\ log[b].elem # StaleElem /\ IsPlaceholder(log[b].elem.src)
           /\ log[c].resp # NoResp /\ log[c].ret = NoPath


(***************************************************************************)
(* C22: the set of regions that survives suppress_inside_bboxes is the     *)
(* same for every permutation of the input list.                           *)
(***************************************************************************)
\* the rearrangements of a list of n entries
Perms(n) == {f \in [1..n -> 1..n] : \A a, b \in 1..n : a # b => f[a] # f[b]}

Range(seq) == {seq[n] : n \in 1..Len(seq)}

C22_OrderIndependent ==
    spc = "returned" =>
        \A f \in Perms(Len(sboxes)) :
            Range(suppress_inside_bboxes([n \in 1..Len(sboxes) |-> sboxes[f[n]]],
                                         DefaultThreshold))
                = Range(survivors)


(***************************************************************************)
(* C23: for a non-empty input suppress_inside_bboxes returns a non-empty   *)
(* result: every region whose area is the maximum of the input is kept     *)
(* throughout the pass, so the suppression stage never empties a list.     *)
(***************************************************************************)
MaxArea(boxes) ==
    CHOOSE a \in {bbox_area(boxes[n]) : n \in 1..Len(boxes)} :
        \A n \in 1..Len(boxes) : bbox_area(boxes[n]) <= a

C23_LargestKept ==
    (spc \in {"loop", "returned"} /\ sboxes # <<>>) =>
        /\ \A n \in 1..Len(sboxes) :
               bbox_area(sboxes[n]) = MaxArea(sboxes) => keep[n]
        /\ suppress_inside_bboxes(sboxes, DefaultThreshold) # <<>>
        /\ spc = "returned" =>
               /\ survivors # <<>>
               /\ \A n \in 1..Len(sboxes) :
                      bbox_area(sboxes[n]) = MaxArea(sboxes)
                          => sboxes[n] \in Range(survivors)

\* the two boxes of largest area are returned, the box inside them is not
C23_Witness ==
    /\ spc = "returned"
    /\ sboxes = <<InnerBox, LargeBox, ShiftedBox>>
    /\ survivors = <<LargeBox, ShiftedBox>>


(***************************************************************************)
(* C24: the regions returned by filter_by_constrain followed by            *)
(* suppress_inside_bboxes are a subsequence of the oracle's list: they     *)
(* keep their relative order, each comes from an entry of its own and no   *)
(* box is altered; crop file k (from 0) and csv row k belong to the        *)
(* (k+1)-th survivor in that order.                                        *)
(***************************************************************************)
\* sub picks entries of full at increasing positions
IsSubsequence(sub, full) ==
    \E f \in [1..Len(sub) -> 1..Len(full)] :
        /\ \A a, b \in 1..Len(sub) : a < b => f[a] < f[b]
        /\ \A a \in 1..Len(sub) : sub[a] = full[f[a]]

C24_Subsequence ==
    /\ rpc \in {"filtered", "suppressed", "saved"} => IsSubsequence(accepted, bboxes)
    /\ rpc \in {"suppressed", "saved"} =>
           /\ IsSubsequence(survivors, accepted)
           /\ IsSubsequence(survivors, bboxes)
    /\ rpc = "saved" =>
           /\ crops = {<<base_name(ImagePath(1)), k, "png">> :
                           k \in 0..(Len(survivors) - 1)}
           /\ Cardinality(csvs) = 1
           /\ \A c \in csvs :
                  /\ Len(c.rows) = Len(survivors)
                  /\ \A k \in 0..(Len(survivors) - 1) :
                         /\ c.rows[k + 1].FileName = <<base_name(ImagePath(1)), k, "png">>
                         /\ <<c.rows[k + 1].X, c.rows[k + 1].Y,
                              c.rows[k + 1].W, c.rows[k + 1].H>> = survivors[k + 1]

\* of the five spread boxes the first, third and fifth are saved, in that order
C24_Witness ==
    /\ rpc = "saved"
    /\ bboxes = SpreadBoxes
    /\ survivors = <<<<0, 0, 10, 20>>, <<20, 0, 10, 30>>, <<40, 0, 10, 40>>>>
    /\ Cardinality(crops) = 3


(***************************************************************************)
(* C21: when the harvest driver loop has finished a batch, every image of  *)
(* the batches so far, unless os.remove failed on it, is in exactly one of *)
(* two states: its file is on disk and a csv file with at least one row    *)
(* exists under its base name, or its file is deleted and no csv file      *)
(* exists under its base name.                                             *)
(***************************************************************************)
KeptWithRecord(path) ==
    /\ path \in pdisk
    /\ \E c \in CsvsOf(base_name(path)) : Len(c.rows) >= 1

DeletedWithoutRecord(path) ==
    /\ path \notin pdisk
    /\ CsvsOf(base_name(path)) = {}

====
